---- MODULE Spec2Model ----
(***************************************************************************)
(* Model of package selfupdate (selfupdate/selfupdate.go): the Updater's   *)
(* BackgroundRun cycle -- wantUpdate (the check schedule kept in the       *)
(* cktime file), update (metadata, patch path, full-binary fallback,       *)
(* digest verification, install) -- as a state machine.  One action per    *)
(* function call of the cycle; the capabilities the package consumes       *)
(* (Requester.Fetch, binarydist.Patch, gzip, go-update, the file system,   *)
(* the clock) answer nondeterministically from small sets.                 *)
(***************************************************************************)
EXTENDS Integers, Sequences, FiniteSets, TLC

(***************************************************************************)
(* Bounds of the model.                                                    *)
(***************************************************************************)
\* Clock resolution: ticks in one second (time.Time has nanoseconds; what
\* matters is that it is finer than the seconds RFC3339 keeps).
TicksPerSecond == 2
\* Number of serialized BackgroundRun calls on the same Updater.
MaxRuns == 2

(***************************************************************************)
(* Time: instants and durations are tick counts; the zero time.Time is 0.  *)
(***************************************************************************)
Second == TicksPerSecond
Hour == 3600 * Second

\* time.Time{}, what readTime returns for a missing file.
ZeroTime == 0

\* A wall-clock reading on a whole second, long after the zero time.
Epoch == 10000 * Hour

\* t.Before(u), the comparison the other way round
Before(t, u) == t < u

\* t.After(u)
After(t, u) == t > u

\* t.Add(d)
Add(t, d) == t + d

\* t.Format(time.RFC3339): the text keeps whole seconds, the fraction is
\* dropped.  The text is modelled by the number of seconds it spells.
FormatRFC3339(t) == t \div TicksPerSecond

\* time.Parse(time.RFC3339, text) of a well-formed text.
ParseRFC3339(secs) == secs * TicksPerSecond

\* rand.Int63n(n): the values of [0, n) the model draws from, its least
\* and its greatest.
randDuration(n) == {0, n - 1}

(***************************************************************************)
(* Strings that are built by concatenation (Dir, paths) are sequences of   *)
(* fragments; "/" is the path separator.                                   *)
(***************************************************************************)
upcktimePath == <<"cktime">>

\* filepath.Dir(osext.Executable()), already clean.
ExecDir == <<"opt", "/", "app">>

RECURSIVE SplitPath(_, _, _)
\* The components of a path text: fragments between separators are joined,
\* empty components are dropped (filepath.Clean on the texts used here, which
\* hold no "." or ".." components).
SplitPath(s, cur, acc) ==
    IF s = <<>>
    THEN IF cur = "" THEN acc ELSE Append(acc, cur)
    ELSE IF Head(s) = "/"
         THEN SplitPath(Tail(s), "", IF cur = "" THEN acc ELSE Append(acc, cur))
         ELSE SplitPath(Tail(s), cur \o Head(s), acc)

\* filepath.Join(a, b): the cleaned path, as its sequence of components.
Join(a, b) == SplitPath(a \o <<"/">> \o b, "", <<>>)

\* Updater.getExecRelativeDir(dir) when osext.Executable() succeeds.
getExecRelativeDir(dir) == Join(ExecDir, dir)

\* The values of Updater.Dir the model configures.
DirChoices == { <<"update", "/">>, <<"update">> }

\* Every path the token can live at.
TokenPaths == { getExecRelativeDir(d \o upcktimePath) : d \in DirChoices }

(***************************************************************************)
(* Errors: the cause (errors.New / errors.Errorf / a capability's error)   *)
(* and the messages errors.Wrapf put around it, outermost first.           *)
(***************************************************************************)
Nil == [cause |-> "nil", wraps |-> <<>>]

NewError(c) == [cause |-> c, wraps |-> <<>>]

\* errors.Wrapf(err, msg)
Wrapf(err, msg) == [err EXCEPT !.wraps = <<msg>> \o @]

\* var ErrHashMismatch = errors.New("new file hash mismatch after patch")
ErrHashMismatch == NewError("ErrHashMismatch")

(***************************************************************************)
(* Byte buffers and digests.  A byte buffer is named by its content; a     *)
(* digest is a byte slice: its length and the content it is the SHA-256    *)
(* of (SHA-256 is taken to be collision free on the buffers of the model). *)
(***************************************************************************)
\* sha256.Size
Sha256Size == 32

\* The executable the process was started from.
OldBin == "B0"

\* Executables a patch or a download can produce.
Bins == {"B1", "B2"}

\* h := sha256.New(); h.Write(bin); h.Sum(nil)
Sum256(bin) == [size |-> Sha256Size, of |-> bin]

\* A nil []byte (Info.Sha256 before any metadata was decoded).
NilBytes == [size |-> 0, of |-> ""]

\* A digest cut short: base64 text that decodes to 16 bytes.
ShortDigest == [size |-> 16, of |-> "B1"]

\* A length that is that of a SHA-256 sum whatever the bytes are.
Len8OfSum(b) == Sha256Size

\* len(b)
Len8(b) == b.size

\* bytes.Equal(a, b)
BytesEqual(a, b) == a = b

\* A verifySha that rejects every buffer.
verifyShaRejectsAll(bin, sha) == FALSE

\* A verifySha that accepts every buffer.
verifyShaAcceptsAll(bin, sha) == TRUE

\* verifySha(bin, sha)
verifySha(bin, sha) == BytesEqual(Sum256(bin), sha)

(***************************************************************************)
(* URLs: the base the Updater was configured with and the text appended.   *)
(***************************************************************************)
plat == "linux-amd64"

\* url.QueryEscape on the texts of the model: only the blank of the command
\* name needs escaping.
QueryEscape(s) == IF s = "my app" THEN "my+app" ELSE s

\* u.ApiURL + url.QueryEscape(u.CmdName) + "/" + url.QueryEscape(plat) + ".json"
InfoUrl(up) ==
    [base |-> up.ApiURL,
     rest |-> <<QueryEscape(up.CmdName), "/", QueryEscape(plat), ".json">>]

\* u.DiffURL + fmt.Sprintf("%s/%s/%s/%s", cmd, current, info, plat)
PatchUrl(up) ==
    [base |-> up.DiffURL,
     rest |-> <<QueryEscape(up.CmdName), "/", QueryEscape(up.CurrentVersion), "/",
                QueryEscape(up.Info.Version), "/", QueryEscape(plat)>>]

\* u.BinURL + fmt.Sprintf("%s/%s/%s.gz", cmd, info, plat)
BinUrl(up) ==
    [base |-> up.BinURL,
     rest |-> <<QueryEscape(up.CmdName), "/", QueryEscape(up.Info.Version), "/",
                QueryEscape(plat), ".gz">>]

(***************************************************************************)
(* The check token file.                                                   *)
(***************************************************************************)
\* Content of the token path: no file, a file that cannot be read, a file
\* whose text is no RFC3339 timestamp (an empty file included), or the
\* RFC3339 text of a second.
NoFile == [kind |-> "absent", secs |-> 0]
Unreadable == [kind |-> "unreadable", secs |-> 0]
Garbage == [kind |-> "garbage", secs |-> 0]
Stamp(secs) == [kind |-> "stamp", secs |-> secs]

\* A readTime that takes a missing file for a far-future token.
readTimeMissingIsFuture(content, now) ==
    IF content.kind = "stamp"
    THEN ParseRFC3339(content.secs)
    ELSE Add(now, 1000 * Hour)

\* A readTime that answers the zero time for a text that does not parse.
readTimeUnparsedIsZero(content, now) ==
    IF content.kind \in {"absent", "garbage"} THEN ZeroTime
    ELSE IF content.kind = "unreadable" THEN Add(now, 1000 * Hour)
    ELSE ParseRFC3339(content.secs)

\* readTime(path), given what is at the path and the clock.
readTime(content, now) ==
    IF content.kind = "absent" THEN ZeroTime
    ELSE IF content.kind = "unreadable" THEN Add(now, 1000 * Hour)
    ELSE IF content.kind = "garbage" THEN Add(now, 1000 * Hour)
    ELSE ParseRFC3339(content.secs)

\* A skip test that forgets the dev sentinel.
skipsCheckNoDev(up, content, now) ==
    ~up.ForceCheck /\ After(readTime(content, now), now)

\* A skip test that reads ForceCheck the wrong way round.
skipsCheckForced(up, content, now) ==
    up.CurrentVersion = "dev"
        \/ (up.ForceCheck /\ After(readTime(content, now), now))

\* The condition of wantUpdate's early return:
\* u.CurrentVersion == "dev" || (!u.ForceCheck && readTime(path).After(time.Now()))
skipsCheck(up, content, now) ==
    up.CurrentVersion = "dev"
        \/ (~up.ForceCheck /\ After(readTime(content, now), now))

\* Whether the early-return condition reads the token file: || and && cut
\* the evaluation short.
readsToken(up) == up.CurrentVersion # "dev" /\ ~up.ForceCheck

\* A wait that is the random part alone.
WaitsWithoutDay == randDuration(24 * Hour)

\* wait := 24*time.Hour + randDuration(24*time.Hour)
Waits == { 24 * Hour + j : j \in randDuration(24 * Hour) }

\* What ioutil.WriteFile can do: write the text; fail to open the file, which
\* stays as it was; fail after the file was truncated.
WriteOutcomes == {"written", "openfailed", "truncated"}

\* The file after ioutil.WriteFile(path, []byte(t.Format(time.RFC3339)), 0644).
FileAfterWrite(content, t, outcome) ==
    IF outcome = "written" THEN Stamp(FormatRFC3339(t))
    ELSE IF outcome = "truncated" THEN Garbage
    ELSE content

\* A writeTime that reports success whatever WriteFile returned.
writeTimeAlwaysTrue(outcome) == TRUE

\* writeTime's result: ioutil.WriteFile(...) == nil
writeTime(outcome) == outcome = "written"

(***************************************************************************)
(* State.                                                                  *)
(***************************************************************************)
VARIABLES
    u,       \* the Updater: its configuration and Info
    clock,   \* time.Now()
    files,   \* what is at each path the token can live at
    dirs,    \* the directories that exist
    exe,     \* the executable on disk: its bytes, or "broken"
    old,     \* update's handle on the executable: "none", "open", "closed"
    bin,     \* update's local bin: "nil" or a byte buffer
    pc,      \* where the BackgroundRun call stands
    want,    \* what wantUpdate returned in this call: "none", "true", "false"
    ret,     \* what BackgroundRun returned: NoRet while it runs
    runs,    \* BackgroundRun calls started so far
    calls,   \* the capability calls of this BackgroundRun, in order
    logs,    \* the log lines of this BackgroundRun
    sched,   \* wantUpdate's last pass: clock readings, wait, write outcome
    lastCheck \* the clock reading of the latest earlier BackgroundRun whose
              \* wantUpdate returned true (ZeroTime when there was none)

vars == <<u, clock, files, dirs, exe, old, bin, pc, want, ret, runs, calls,
          logs, sched, lastCheck>>

NoRet == [cause |-> "running", wraps |-> <<>>]

\* sched before wantUpdate ran: the token path, what it held when
\* wantUpdate began, the clock reading, the wait drawn, and what became of
\* the pass ("skipped", "noexecutable" or the outcome of the write).
NoSched == [path |-> <<>>, before |-> NoFile, now |-> 0, wait |-> 0, outcome |-> "none"]

\* The clock readings BackgroundRun calls start from: on a whole second and
\* between two seconds.
StartClocks == {Epoch, Epoch + 1}

\* What the token path holds when the process starts.
StartTokens ==
    {NoFile, Unreadable, Garbage,
     Stamp(FormatRFC3339(Epoch)), Stamp(FormatRFC3339(Epoch) + 1)}

\* Time that passes between two BackgroundRun calls: a second less than a
\* day, a tick less than a day, two days.
Pauses == {24 * Hour - Second, 24 * Hour - 1, 48 * Hour}

Init ==
    /\ \E cv \in {"dev", "1"}, fc \in BOOLEAN, du \in {"", "http://diff/"},
          d \in DirChoices :
         u = [CurrentVersion |-> cv,
              ApiURL |-> "http://api/",
              CmdName |-> "my app",
              BinURL |-> "http://bin/",
              DiffURL |-> du,
              Dir |-> d,
              ForceCheck |-> fc,
              Info |-> [Version |-> "", Sha256 |-> NilBytes]]
    /\ clock \in StartClocks
    /\ \E c \in StartTokens :
         files = [p \in TokenPaths |->
                    IF p = getExecRelativeDir(u.Dir \o upcktimePath) THEN c ELSE NoFile]
    /\ dirs = {SplitPath(ExecDir, "", <<>>)}
    /\ exe = OldBin
    /\ old = "none"
    /\ bin = "nil"
    /\ pc = "Idle"
    /\ want = "none"
    /\ ret = NoRet
    /\ runs = 0
    /\ calls = <<>>
    /\ logs = {}
    /\ sched = NoSched
    /\ lastCheck = ZeroTime

\* One capability call: what was called, by which function, with what, and
\* what came back.
Call(op, by, arg, res) == [op |-> op, by |-> by, arg |-> arg, res |-> res]

Called(op) == \E i \in 1..Len(calls) : calls[i].op = op

CalledBy(op, by) == \E i \in 1..Len(calls) : calls[i].op = op /\ calls[i].by = by

(***************************************************************************)
(* BackgroundRun, up to its call of wantUpdate (lines 113-124).            *)
(***************************************************************************)
BackgroundRun ==
    /\ pc = "Idle"
    /\ runs < MaxRuns
    /\ runs' = runs + 1
    /\ \E outcome \in {"ok", "noexecutable", "nomkdir"} :
         LET dir == getExecRelativeDir(u.Dir) IN
         IF outcome = "noexecutable"
         THEN /\ ret' = Wrapf(Wrapf(NewError("osext.Executable"),
                                    "Couldn't get path to self executable"),
                              "Couldn't get directory relative to executable for updates")
              /\ pc' = "Returned"
              /\ calls' = Append(calls,
                                 Call("Executable", "getExecRelativeDir", "", "error"))
              /\ UNCHANGED dirs
         ELSE IF outcome = "nomkdir"
         THEN /\ ret' = Wrapf(NewError("os.MkdirAll"),
                              "Couldn't create directory for storing updates")
              /\ pc' = "Returned"
              /\ calls' = calls \o <<Call("Executable", "getExecRelativeDir", "", "ok"),
                                     Call("MkdirAll", "BackgroundRun", dir, "error")>>
              /\ UNCHANGED dirs
         ELSE /\ dirs' = dirs \cup {dir}
              /\ pc' = "wantUpdate"
              /\ calls' = calls \o <<Call("Executable", "getExecRelativeDir", "", "ok"),
                                     Call("MkdirAll", "BackgroundRun", dir, "ok")>>
              /\ UNCHANGED ret
    /\ UNCHANGED <<u, clock, files, exe, old, bin, want, logs, sched, lastCheck>>

(***************************************************************************)
(* wantUpdate (lines 138-149), and BackgroundRun's test of its result      *)
(* (line 125; line 135 when it is false).  The time.Now() calls of one     *)
(* pass (readTime's, line 144's, line 148's) are one clock reading.        *)
(***************************************************************************)
\* BackgroundRun going on whatever wantUpdate answered.
afterWantUpdateAlways(w) == "CanUpdate"

\* Where BackgroundRun goes with wantUpdate's answer: into the block of
\* line 125 when it is true, to the return nil of line 135 otherwise.
afterWantUpdate(w) == IF w = "true" THEN "CanUpdate" ELSE "Returned"

wantUpdate ==
    /\ pc = "wantUpdate"
    /\ \E executable \in BOOLEAN, wait \in Waits, outcome \in WriteOutcomes :
         LET path == getExecRelativeDir(u.Dir \o upcktimePath)
             now == clock
             read == IF readsToken(u)
                     THEN <<Call("ReadFile", "readTime", path, files[path].kind)>>
                     ELSE <<>>
         IN
         IF ~executable
         THEN /\ want' = "false"
              /\ logs' = logs \cup {"Couldn't get path to self executable"}
              /\ calls' = Append(calls,
                                 Call("Executable", "getExecRelativeDir", "", "error"))
              /\ sched' = [path |-> path, before |-> files[path], now |-> now,
                           wait |-> 0, outcome |-> "noexecutable"]
              /\ UNCHANGED <<files, clock>>
         ELSE IF skipsCheck(u, files[path], now)
         THEN /\ want' = "false"
              /\ calls' = Append(calls,
                                 Call("Executable", "getExecRelativeDir", "", "ok"))
                            \o read
              /\ sched' = [path |-> path, before |-> files[path], now |-> now,
                           wait |-> 0, outcome |-> "skipped"]
              /\ UNCHANGED <<files, clock, logs>>
         ELSE /\ want' = IF writeTime(outcome) THEN "true" ELSE "false"
              /\ files' = [files EXCEPT ![path] =
                              FileAfterWrite(@, Add(now, wait), outcome)]
              /\ calls' = Append(calls,
                                 Call("Executable", "getExecRelativeDir", "", "ok"))
                            \o read
                            \o <<Call("WriteFile", "writeTime", path, outcome)>>
              /\ sched' = [path |-> path, before |-> files[path], now |-> now,
                           wait |-> wait, outcome |-> outcome]
              /\ UNCHANGED <<clock, logs>>
    /\ pc' = afterWantUpdate(want')
    /\ IF pc' = "Returned" THEN ret' = Nil ELSE UNCHANGED ret
    /\ UNCHANGED <<u, dirs, exe, old, bin, runs, lastCheck>>

(***************************************************************************)
(* up.CanUpdate() (lines 126-129).                                         *)
(***************************************************************************)
CanUpdate ==
    /\ pc = "CanUpdate"
    /\ \E ok \in BOOLEAN :
         IF ok
         THEN /\ pc' = "update"
              /\ calls' = Append(calls, Call("CanUpdate", "BackgroundRun", "", "ok"))
              /\ UNCHANGED ret
         ELSE /\ pc' = "Returned"
              /\ calls' = Append(calls, Call("CanUpdate", "BackgroundRun", "", "error"))
              /\ ret' = Wrapf(NewError("up.CanUpdate"), "Wants to update but can't")
    /\ UNCHANGED <<u, clock, files, dirs, exe, old, bin, want, runs, logs, sched, lastCheck>>

(***************************************************************************)
(* The capabilities update consumes.                                       *)
(***************************************************************************)
\* What u.fetch(url) can come back with (lines 356-372): the Requester's
\* error, a nil ReadCloser without error (turned into an error), a stream.
FetchOutcomes == {"error", "nilstream", "stream"}

\* The error u.fetch returns for an outcome.
FetchError(outcome) ==
    IF outcome = "error" THEN NewError("Requester.Fetch")
    ELSE NewError("Fetch was expected to return non-nil ReadCloser")

\* A JSON field that the body does not have.
Absent == "absent"

\* The bodies the metadata endpoint answers with: text that is no JSON, or
\* an object whose Version and Sha256 are there or not.
MetadataBodies ==
    {[json |-> FALSE, Version |-> Absent, Sha256 |-> Absent]}
        \cup {[json |-> TRUE, Version |-> v, Sha256 |-> h] :
                v \in {"1", "2"}, h \in {Absent, "B1", "short"}}
        \cup {[json |-> TRUE, Version |-> Absent, Sha256 |-> "B1"]}

\* json.NewDecoder(r).Decode(&u.Info) of a JSON object: a field the object
\* has is stored, a field it lacks keeps the value Info had.
Decode(info, body) ==
    [Version |-> IF body.Version = Absent THEN info.Version ELSE body.Version,
     Sha256 |-> IF body.Sha256 = Absent THEN info.Sha256
                ELSE IF body.Sha256 = "short" THEN ShortDigest
                ELSE Sum256(body.Sha256)]

\* What binarydist.Patch(old, &buf, r) leaves in buf, or its error.
PatchOutcomes == {"error"} \cup Bins

\* What gzip.NewReader and io.Copy make of the full-binary stream.
GunzipOutcomes == {"noheader", "copyfailed"} \cup Bins

\* up.FromStream's two results (err, errRecover): success, a failure that
\* was rolled back, a failure whose rollback failed too.
InstallOutcomes ==
    {[name |-> "ok", err |-> Nil, errRecover |-> Nil],
     [name |-> "failed", err |-> NewError("install"), errRecover |-> Nil],
     [name |-> "unrecovered", err |-> NewError("install"),
      errRecover |-> NewError("recover")]}

\* The error made by fmt.Errorf("update and recovery errors: %q %q", err, errRecover)
RecoveryError(err, errRecover) == NewError("update and recovery errors")

\* The mapping with its first test inverted.
installResultInverted(err, errRecover) ==
    IF errRecover = Nil THEN RecoveryError(err, errRecover)
    ELSE IF err # Nil THEN err
    ELSE Nil

\* The mapping with its two tests in the other order.
installResultPrimaryFirst(err, errRecover) ==
    IF err # Nil THEN err
    ELSE IF errRecover # Nil THEN RecoveryError(err, errRecover)
    ELSE Nil

\* What update returns after up.FromStream (lines 199-206).
installResult(err, errRecover) ==
    IF errRecover # Nil THEN RecoveryError(err, errRecover)
    ELSE IF err # Nil THEN err
    ELSE Nil

\* A BackgroundRun that logs update's error and returns nil.
runResultSwallowed(err) == Nil

\* What BackgroundRun returns for update's result (lines 130-135).
runResult(err) ==
    IF err # Nil
    THEN Wrapf(err, "Failed performing update even though it can")
    ELSE Nil

\* The deferred old.Close() of update, run when update returns.
DeferredClose == <<Call("Close", "update", "", "deferred")>>

(***************************************************************************)
(* update, up to its defer (lines 152-163).                                *)
(***************************************************************************)
update ==
    /\ pc = "update"
    /\ \E outcome \in {"ok", "noexecutable", "noopen"} :
         IF outcome = "noexecutable"
         THEN /\ ret' = runResult(Wrapf(NewError("osext.Executable"),
                                        "Couldn't get path to executable (self)"))
              /\ pc' = "Returned"
              /\ calls' = Append(calls, Call("Executable", "update", "", "error"))
              /\ UNCHANGED old
         ELSE IF outcome = "noopen"
         THEN /\ ret' = runResult(Wrapf(NewError("os.Open"),
                                        "Couldn't open self executable"))
              /\ pc' = "Returned"
              /\ calls' = calls \o <<Call("Executable", "update", "", "ok"),
                                     Call("Open", "update", "", "error")>>
              /\ UNCHANGED old
         ELSE /\ old' = "open"
              /\ pc' = "fetchInfo"
              /\ calls' = calls \o <<Call("Executable", "update", "", "ok"),
                                     Call("Open", "update", "", "ok")>>
              /\ UNCHANGED ret
    /\ UNCHANGED <<u, clock, files, dirs, exe, bin, want, runs, logs, sched, lastCheck>>

(***************************************************************************)
(* fetchInfo (lines 210-229) and update's use of it (lines 165-173).       *)
(***************************************************************************)
\* A comparison that never finds the versions equal.
alreadyLatestNever(up) == FALSE

\* u.Info.Version == u.CurrentVersion (line 170)
alreadyLatest(up) == up.Info.Version = up.CurrentVersion

fetchInfo ==
    /\ pc = "fetchInfo"
    /\ \E outcome \in FetchOutcomes, body \in MetadataBodies :
         LET fetched == Call("Fetch", "fetchInfo", InfoUrl(u), outcome)
             info == Decode(u.Info, body)
             decoded(res) == Call("Decode", "fetchInfo", body, res)
             failed(err, made) ==
                 /\ ret' = runResult(Wrapf(err,
                               "Couldn't properly fetch JSON information for updates"))
                 /\ pc' = "Returned"
                 /\ old' = "closed"
                 /\ calls' = calls \o made \o DeferredClose
                 /\ UNCHANGED logs
         IN
         IF outcome # "stream"
         THEN /\ failed(Wrapf(FetchError(outcome),
                              "Couldn't fetch json with information for update"),
                        <<fetched>>)
              /\ UNCHANGED u
         ELSE IF ~body.json
         THEN /\ failed(Wrapf(NewError("json.Decode"), "Couldn't decode JSON (%s)"),
                        <<fetched, decoded("error")>>)
              /\ UNCHANGED u
         ELSE IF Len8(info.Sha256) # Sha256Size
         THEN /\ failed(NewError("Bad cmd hash in JSON info"),
                        <<fetched, decoded("badhash")>>)
              /\ u' = [u EXCEPT !.Info = info]
         ELSE /\ u' = [u EXCEPT !.Info = info]
              /\ IF alreadyLatest(u')
                 THEN /\ ret' = runResult(Nil)
                      /\ pc' = "Returned"
                      /\ old' = "closed"
                      /\ logs' = logs \cup {"Already at latest version :)"}
                      /\ calls' = calls \o <<fetched, decoded("ok")>> \o DeferredClose
                 ELSE /\ pc' = "fetchAndVerifyPatch"
                      /\ calls' = calls \o <<fetched, decoded("ok")>>
                      /\ UNCHANGED <<ret, old, logs>>
    /\ UNCHANGED <<clock, files, dirs, exe, bin, want, runs, sched, lastCheck>>

(***************************************************************************)
(* fetchAndVerifyPatch (lines 235-245) with fetchAndApplyPatch (lines      *)
(* 255-292), and update's handling of its error (lines 174-183).           *)
(***************************************************************************)
\* The log line update writes for the patch path's error (lines 176-182).
patchFailureLog(up, err) ==
    IF err = ErrHashMismatch THEN {"Hash mismatch from patched binary"}
    ELSE IF up.DiffURL # "" THEN {"Patching binary"}
    ELSE {}

fetchAndVerifyPatch ==
    /\ pc = "fetchAndVerifyPatch"
    /\ \E outcome \in FetchOutcomes, patched \in PatchOutcomes :
         LET fetched == Call("Fetch", "fetchAndApplyPatch", PatchUrl(u), outcome)
             applied == Call("Patch", "fetchAndApplyPatch", "", patched)
             fallback(err, made, warned) ==
                 /\ pc' = "fetchAndVerifyFullBin"
                 /\ logs' = logs \cup warned \cup patchFailureLog(u, err)
                 /\ calls' = calls \o made
                 /\ UNCHANGED bin
         IN
         IF outcome # "stream"
         THEN fallback(Wrapf(Wrapf(FetchError(outcome), "Errored fetching path"),
                             "Couldn't fetch and apply patch"),
                       <<fetched>>, {"Errored fetching path"})
         ELSE IF patched = "error"
         THEN fallback(Wrapf(Wrapf(NewError("binarydist.Patch"),
                                   "Errored using binarydist to patch"),
                             "Couldn't fetch and apply patch"),
                       <<fetched, applied>>, {"Errored using binarydist to patch"})
         ELSE IF ~verifySha(patched, u.Info.Sha256)
         THEN fallback(ErrHashMismatch, <<fetched, applied>>, {"SHA mismatch"})
         ELSE /\ bin' = patched
              /\ pc' = "FromStream"
              /\ calls' = calls \o <<fetched, applied>>
              /\ UNCHANGED logs
    /\ UNCHANGED <<u, clock, files, dirs, exe, old, want, ret, runs, sched, lastCheck>>

(***************************************************************************)
(* fetchAndVerifyFullBin (lines 294-306) with fetchBin (lines 308-349),    *)
(* and update's handling of its error (lines 184-192).                     *)
(***************************************************************************)
\* The log line update writes for the full-binary path's error (186-190).
fullFailureLog(err) ==
    IF err = ErrHashMismatch THEN {"Hash mismatch from full binary"}
    ELSE {"Fetching full binary"}

\* The download, were it streamed onto the executable's path.
exeAfterFetchBinOntoDisk(disk, outcome, unzipped) ==
    IF outcome = "stream" /\ unzipped \in Bins THEN unzipped ELSE disk

\* The executable on disk after fetchBin: the download is copied into a
\* bytes.Buffer and returned (lines 340-348), the disk is not written.
exeAfterFetchBin(disk, outcome, unzipped) == disk

fetchAndVerifyFullBin ==
    /\ pc = "fetchAndVerifyFullBin"
    /\ \E outcome \in FetchOutcomes, unzipped \in GunzipOutcomes :
         LET fetched == Call("Fetch", "fetchBin", BinUrl(u), outcome)
             gunzipped == Call("Gunzip", "fetchBin", "", unzipped)
             failed(err, made, warned) ==
                 /\ exe' = exeAfterFetchBin(exe, outcome, unzipped)
                 /\ ret' = runResult(err)
                 /\ pc' = "Returned"
                 /\ old' = "closed"
                 /\ logs' = logs \cup warned \cup fullFailureLog(err)
                 /\ calls' = calls \o made \o DeferredClose
                 /\ UNCHANGED bin
         IN
         IF outcome # "stream"
         THEN failed(Wrapf(Wrapf(FetchError(outcome), "Failed to fetch full binary"),
                           "Errored fetching full binary"),
                     <<fetched>>, {"Failed to fetch full binary"})
         ELSE IF unzipped = "noheader"
         THEN failed(Wrapf(Wrapf(NewError("gzip.NewReader"),
                                 "Failed to create gzip reader"),
                           "Errored fetching full binary"),
                     <<fetched, gunzipped>>, {"Failed to create gzip reader"})
         ELSE IF unzipped = "copyfailed"
         THEN failed(Wrapf(Wrapf(NewError("io.Copy"),
                                 "Failed to copy gzip content to buf"),
                           "Errored fetching full binary"),
                     <<fetched, gunzipped>>, {"Failed to copy gzip content to buf"})
         ELSE IF ~verifySha(unzipped, u.Info.Sha256)
         THEN failed(Wrapf(ErrHashMismatch, "Hash mismatch"),
                     <<fetched, gunzipped>>, {"SHA mismatch"})
         ELSE /\ bin' = unzipped
              /\ exe' = exeAfterFetchBin(exe, outcome, unzipped)
              /\ pc' = "FromStream"
              /\ calls' = calls \o <<fetched, gunzipped>>
              /\ UNCHANGED <<ret, old, logs>>
    /\ UNCHANGED <<u, clock, files, dirs, want, runs, sched, lastCheck>>

(***************************************************************************)
(* The end of update (lines 195-207): old.Close(), up.FromStream(bin) and  *)
(* the mapping of its two errors.                                          *)
(***************************************************************************)
\* The executable on disk after up.FromStream: replaced on success, as it
\* was after a failure that was rolled back, in no known state otherwise.
ExeAfterInstall(disk, new, outcome) ==
    IF outcome.errRecover # Nil THEN "broken"
    ELSE IF outcome.err # Nil THEN disk
    ELSE new

\* The handle, were the old.Close() of line 197 missing.
handleLeftAsIs(h) == h

\* The handle on the executable after the old.Close() of line 197.
handleAfterClose(h) == "closed"

\* The call of up.FromStream(bytes.NewBuffer(bin)): the buffer handed over,
\* what came back, and what the handle and Info.Sha256 were at the call.
Install(buf, outcome, handle, sha) ==
    [op |-> "FromStream", by |-> "update", arg |-> buf, res |-> outcome.name,
     handle |-> handle, sha |-> sha]

FromStream ==
    /\ pc = "FromStream"
    /\ \E outcome \in InstallOutcomes :
         /\ exe' = ExeAfterInstall(exe, bin, outcome)
         /\ ret' = runResult(installResult(outcome.err, outcome.errRecover))
         /\ calls' = calls
                       \o <<Call("Close", "update", "", "line 197"),
                            Install(bin, outcome, handleAfterClose(old), u.Info.Sha256)>>
                       \o DeferredClose
    /\ old' = "closed"
    /\ pc' = "Returned"
    /\ UNCHANGED <<u, clock, files, dirs, bin, want, runs, logs, sched, lastCheck>>

(***************************************************************************)
(* The caller: after BackgroundRun returned, time passes and the locals of *)
(* the call are gone; the Updater, the files and the executable stay.      *)
(***************************************************************************)
Return ==
    /\ pc = "Returned"
    /\ pc' = "Idle"
    /\ \E pause \in Pauses : clock' = clock + pause
    /\ old' = "none"
    /\ bin' = "nil"
    /\ want' = "none"
    /\ ret' = NoRet
    /\ calls' = <<>>
    /\ logs' = {}
    /\ sched' = NoSched
    /\ lastCheck' = IF want = "true" THEN sched.now ELSE lastCheck
    /\ UNCHANGED <<u, files, dirs, exe, runs>>

Next ==
    \/ BackgroundRun
    \/ wantUpdate
    \/ CanUpdate
    \/ update
    \/ fetchInfo
    \/ fetchAndVerifyPatch
    \/ fetchAndVerifyFullBin
    \/ FromStream
    \/ Return

Spec == Init /\ [][Next]_vars

(***************************************************************************)
(* What a BackgroundRun call did, read off its capability calls.           *)
(***************************************************************************)
\* The metadata body this call decoded, when the resolver accepted it.
Resolved == \E i \in DOMAIN calls : calls[i].op = "Decode" /\ calls[i].res = "ok"

\* The patch path failed: the patch was not fetched, did not apply, or the
\* patched bytes do not have the resolved digest.
PatchPathFailed ==
    \E i \in DOMAIN calls :
        \/ /\ calls[i].op = "Fetch"
           /\ calls[i].by = "fetchAndApplyPatch"
           /\ calls[i].res # "stream"
        \/ /\ calls[i].op = "Patch"
           /\ calls[i].res = "error" \/ Sum256(calls[i].res) # u.Info.Sha256

\* The full-binary path produced bytes that have the resolved digest.
FullPathMatched ==
    \E i \in DOMAIN calls :
        /\ calls[i].op = "Gunzip"
        /\ calls[i].res \in Bins
        /\ Sum256(calls[i].res) = u.Info.Sha256

\* The full-binary path produced bytes that do not have the resolved digest.
FullPathMismatched ==
    \E i \in DOMAIN calls :
        /\ calls[i].op = "Gunzip"
        /\ calls[i].res \in Bins
        /\ Sum256(calls[i].res) # u.Info.Sha256

\* up.FromStream was called and came back with res.
Installed(res) ==
    \E i \in DOMAIN calls : calls[i].op = "FromStream" /\ calls[i].res = res

(***************************************************************************)
(* Properties.                                                             *)
(***************************************************************************)
\* C1: up.FromStream is only ever called with a byte buffer whose SHA-256 is
\* u.Info.Sha256 as the metadata fetch of the same call left it, and that
\* buffer is what the patch path or the full-binary path of that call made.
C1_InstallOnlyVerifiedBytes ==
    \A i \in DOMAIN calls :
        calls[i].op = "FromStream" =>
            /\ calls[i].arg \in Bins
            /\ Sum256(calls[i].arg) = calls[i].sha
            /\ calls[i].sha = u.Info.Sha256
            /\ \E j \in 1..(i - 1) : calls[j].op = "Decode" /\ calls[j].res = "ok"
            /\ \E j \in 1..(i - 1) :
                   /\ calls[j].op \in {"Patch", "Gunzip"}
                   /\ calls[j].res = calls[i].arg

\* A call installed the bytes its patch path made, without a full download.
C1_Witness ==
    /\ \E i \in DOMAIN calls : calls[i].op = "FromStream"
    /\ Called("Patch")
    /\ ~CalledBy("Fetch", "fetchBin")

\* C2: once the patch path has failed, for either cause, the full binary is
\* fetched; and when its bytes have the resolved digest, up.FromStream is
\* called, and if it succeeds BackgroundRun returns nil.
C2_FallbackEndsDone ==
    /\ (PatchPathFailed /\ pc # "fetchAndVerifyFullBin")
           => CalledBy("Fetch", "fetchBin")
    /\ (PatchPathFailed /\ FullPathMatched /\ pc = "Returned")
           => /\ Called("FromStream")
              /\ Installed("ok") => ret = Nil /\ exe = bin

\* The patched bytes had the wrong digest, the full binary was installed.
C2_Witness ==
    /\ pc = "Returned"
    /\ \E i \in DOMAIN calls :
           /\ calls[i].op = "Patch"
           /\ calls[i].res \in Bins
           /\ Sum256(calls[i].res) # u.Info.Sha256
    /\ FullPathMatched
    /\ Installed("ok")
    /\ ret = Nil

\* C3: when the full binary's bytes do not have the resolved digest, the
\* call has returned an error whose cause is ErrHashMismatch (wrapped),
\* nothing was fetched after the full binary, and up.FromStream was not
\* called.
C3_FullMismatchFails ==
    \A i \in DOMAIN calls :
        (/\ calls[i].op = "Gunzip"
         /\ calls[i].res \in Bins
         /\ Sum256(calls[i].res) # u.Info.Sha256)
            => /\ pc = "Returned"
               /\ ret.cause = ErrHashMismatch.cause
               /\ ret # ErrHashMismatch
               /\ ~Called("FromStream")
               /\ exe # calls[i].res
               /\ \A j \in (i + 1)..Len(calls) : calls[j].op = "Close"

\* The full binary came with the wrong digest after the patch had failed.
C3_Witness ==
    /\ FullPathMismatched
    /\ PatchPathFailed
    /\ pc = "Returned"

\* The metadata body of this call carried the Version the Updater runs.
SameVersionAnswered ==
    \E i \in DOMAIN calls :
        /\ calls[i].op = "Decode"
        /\ calls[i].arg.json
        /\ calls[i].arg.Version = u.CurrentVersion

\* Nothing beyond the metadata fetch: no patch fetch, no patch applied, no
\* full-binary fetch, no install.
OnlyMetadataFetched ==
    /\ ~CalledBy("Fetch", "fetchAndApplyPatch")
    /\ ~Called("Patch")
    /\ ~CalledBy("Fetch", "fetchBin")
    /\ ~Called("FromStream")

\* C4, as stated: whenever the metadata body carries a Version equal to
\* CurrentVersion, BackgroundRun returns nil, having made no patch fetch, no
\* full-binary fetch and no install call.
C4_SameVersionAlwaysDone ==
    (pc = "Returned" /\ SameVersionAnswered)
        => ret = Nil /\ OnlyMetadataFetched

\* C4, amended: whenever the resolver accepts a metadata body (it decodes
\* and the digest is 32 bytes long) that carries a Version equal to
\* CurrentVersion, BackgroundRun returns nil, having made no patch fetch, no
\* full-binary fetch and no install call.
C4_ResolvedSameVersionDone ==
    (Resolved /\ SameVersionAnswered)
        => pc = "Returned" /\ ret = Nil /\ OnlyMetadataFetched

\* The resolver accepted a body with the running Version, the call is over.
C4_Witness ==
    /\ Resolved
    /\ SameVersionAnswered
    /\ pc = "Returned"
    /\ "Already at latest version :)" \in logs

\* C5: with an empty DiffURL and a different version resolved, update makes
\* no patch-endpoint fetch and no patch-apply call, and goes on to the
\* full-binary path.
C5_NoPatchWithoutDiffURL ==
    (u.DiffURL = "" /\ Resolved /\ ~alreadyLatest(u))
        => /\ ~CalledBy("Fetch", "fetchAndApplyPatch")
           /\ ~Called("Patch")
           /\ pc = "fetchAndVerifyPatch" \/ CalledBy("Fetch", "fetchBin")

\* C6: up.FromStream is called with the handle on the executable closed,
\* and whenever BackgroundRun has returned after update opened the
\* executable the handle is closed, the deferred Close being the last call.
C6_HandleClosed ==
    /\ \A i \in DOMAIN calls :
           calls[i].op = "FromStream" => calls[i].handle = "closed"
    /\ pc = "Returned" => old # "open"
    /\ (pc = "Returned" /\ \E i \in DOMAIN calls :
                               calls[i].op = "Open" /\ calls[i].res = "ok")
           => /\ old = "closed"
              /\ calls[Len(calls)].op = "Close"
    /\ old = "open" => pc \in {"fetchInfo", "fetchAndVerifyPatch",
                               "fetchAndVerifyFullBin", "FromStream"}

\* An install that failed and was rolled back; the call is over.
C6_Witness ==
    /\ pc = "Returned"
    /\ old = "closed"
    /\ Installed("failed")

\* wantUpdate has run in this call and found, ForceCheck unset, a token that
\* parses to an instant strictly later than its clock reading.
FutureTokenSeen ==
    /\ want # "none"
    /\ ~u.ForceCheck
    /\ sched.before.kind = "stamp"
    /\ sched.before.secs * TicksPerSecond > sched.now

\* C7: with ForceCheck unset and a token that parses to an instant strictly
\* later than now, wantUpdate returns false and issues no write: the token
\* file holds what it held.
C7_FutureTokenSkips ==
    FutureTokenSeen
        => /\ want = "false"
           /\ ~Called("WriteFile")
           /\ files[sched.path] = sched.before

\* A release build skipped the check on a token one second ahead.
C7_Witness ==
    /\ FutureTokenSeen
    /\ u.CurrentVersion # "dev"
    /\ sched.outcome = "skipped"
    /\ ret = Nil

\* C8: with CurrentVersion "dev", whatever the token and ForceCheck,
\* wantUpdate returns false, the token file is neither read nor written,
\* and BackgroundRun fetches and installs nothing.
C8_DevNeverChecks ==
    u.CurrentVersion = "dev"
        => /\ want \in {"none", "false"}
           /\ pc \in {"Idle", "wantUpdate", "Returned"}
           /\ ~Called("WriteFile")
           /\ ~Called("ReadFile")
           /\ ~Called("Fetch")
           /\ ~Called("FromStream")
           /\ want = "false" => files[sched.path] = sched.before /\ ret = Nil
           /\ exe = OldBin

\* A dev build with ForceCheck set and no token file declined to check.
C8_Witness ==
    /\ u.CurrentVersion = "dev"
    /\ u.ForceCheck
    /\ want = "false"
    /\ sched.outcome = "skipped"
    /\ sched.before = NoFile

\* The instant the token file spells after wantUpdate wrote it.
TokenInstant == files[sched.path].secs * TicksPerSecond

\* wantUpdate's early return was not taken for a reason the claim names:
\* the version is not dev, and ForceCheck is set or the token is not in
\* the future.
CheckWasDue ==
    /\ u.CurrentVersion # "dev"
    /\ u.ForceCheck \/ ~(readTime(sched.before, sched.now) > sched.now)

C10_TrueOnlyIfPersisted ==
    /\ want = "true"
           => /\ sched.outcome = "written"
              /\ \E i \in DOMAIN calls :
                     calls[i].op = "WriteFile" /\ calls[i].res = "written"
    /\ sched.outcome \in {"openfailed", "truncated"}
           => want = "false" /\ pc = "Returned" /\ ret = Nil

\* The write failed after truncating the file; wantUpdate returned false.
C10_Witness ==
    /\ sched.outcome = "truncated"
    /\ want = "false"
    /\ files[sched.path] = Garbage

(***************************************************************************)
(* The scheduler across runs: write failures, unreadable tokens, the      *)
(* state directory.                                                        *)
(***************************************************************************)
\* wantUpdate got as far as writing the token and the write failed.
TokenWriteFailed == sched.outcome \in {"openfailed", "truncated"}

\* This BackgroundRun asked the metadata endpoint.
MetadataFetched == CalledBy("Fetch", "fetchInfo")

\* C11: a failed token write does not suppress the check: a BackgroundRun
\* whose token write failed does not return before it has asked the
\* metadata endpoint for the remote version.
C11_WriteFailureStillChecks ==
    (pc = "Returned" /\ TokenWriteFailed) => MetadataFetched

\* wantUpdate read the token: ForceCheck unset, a non-dev version, and the
\* path of the token was obtained.
TokenWasRead ==
    /\ ~u.ForceCheck
    /\ u.CurrentVersion # "dev"
    /\ sched.outcome \notin {"none", "noexecutable"}

\* C12: with ForceCheck unset and a non-dev version, a token file that does
\* not exist is read as a due date in the past and wantUpdate goes on to
\* the check (it writes the token, and answers true when the write
\* succeeded); a file that cannot be read or does not parse is read as far
\* in the future and the check is skipped.
C12_MissingChecksUnreadableSkips ==
    TokenWasRead =>
        /\ sched.before = NoFile =>
             /\ ~After(readTime(sched.before, sched.now), sched.now)
             /\ sched.outcome # "skipped"
             /\ Called("WriteFile")
             /\ sched.outcome = "written" => want = "true"
        /\ sched.before \in {Unreadable, Garbage} =>
             /\ After(readTime(sched.before, sched.now), Add(sched.now, 999 * Hour))
             /\ sched.outcome = "skipped"
             /\ want = "false"
             /\ ~Called("WriteFile")
             /\ ~Called("CanUpdate")
             /\ ~Called("Fetch")

\* A run that found no token file, wrote one and asked the metadata endpoint.
C12_Witness ==
    /\ TokenWasRead
    /\ sched.before = NoFile
    /\ want = "true"
    /\ MetadataFetched

(***************************************************************************)
(* The install step's two errors.                                          *)
(***************************************************************************)
\* What BackgroundRun returns for a plain install failure.
PlainInstallFailure ==
    Wrapf(NewError("install"), "Failed performing update even though it can")

\* C13: update maps up.FromStream's (err, errRecover) to three outcomes
\* that can be told apart: both nil gives nil; err alone gives that error;
\* a non-nil errRecover, with or without err, gives the "update and
\* recovery errors" error, which is neither nil nor the plain failure.
C13_InstallOutcomesDistinct ==
    /\ \A e \in {Nil, NewError("install")} :
         /\ installResult(e, NewError("recover")).cause = "update and recovery errors"
         /\ installResult(e, NewError("recover")) \notin {Nil, NewError("install")}
    /\ pc = "Returned" =>
         /\ Installed("ok") => ret = Nil
         /\ Installed("failed") => ret = PlainInstallFailure
         /\ Installed("unrecovered") =>
              /\ ret.cause = "update and recovery errors"
              /\ ret \notin {Nil, PlainInstallFailure}

\* An install whose rollback failed too has been reported.
C13_Witness ==
    /\ pc = "Returned"
    /\ Installed("unrecovered")
    /\ ret.cause = "update and recovery errors"

(***************************************************************************)
(* Failures of the Version Resolver.                                       *)
(***************************************************************************)
\* The metadata fetch came back without a stream.
MetadataTransportFailed ==
    \E i \in DOMAIN calls :
        calls[i].op = "Fetch" /\ calls[i].by = "fetchInfo" /\ calls[i].res # "stream"

\* The metadata body was no JSON.
MetadataNotJSON ==
    \E i \in DOMAIN calls : calls[i].op = "Decode" /\ ~calls[i].arg.json

\* The metadata body was JSON and the digest decoded into Info is not 32
\* bytes long.
MetadataBadDigest ==
    /\ \E i \in DOMAIN calls : calls[i].op = "Decode" /\ calls[i].arg.json
    /\ u.Info.Sha256.size # Sha256Size

\* How many calls of an operation this BackgroundRun made.
NumCalls(op) == Cardinality({i \in DOMAIN calls : calls[i].op = op})

\* C14: when the Version Resolver fails, by transport error, JSON decode
\* error or a digest that is not exactly 32 bytes, BackgroundRun has
\* returned that error, and the run made one metadata fetch and no other
\* fetch, no patch, no gunzip and no install call.
C14_ResolverFailureEndsRun ==
    (MetadataTransportFailed \/ MetadataNotJSON \/ MetadataBadDigest) =>
        /\ pc = "Returned"
        /\ ret # Nil
        /\ MetadataTransportFailed =>
             ret.cause \in {FetchError(o).cause : o \in FetchOutcomes \ {"stream"}}
        /\ MetadataNotJSON => ret.cause = "json.Decode"
        /\ MetadataBadDigest => ret.cause = "Bad cmd hash in JSON info"
        /\ NumCalls("Fetch") = 1
        /\ ~CalledBy("Fetch", "fetchAndApplyPatch")
        /\ ~CalledBy("Fetch", "fetchBin")
        /\ ~Called("Patch")
        /\ ~Called("Gunzip")
        /\ ~Called("FromStream")

\* A second run has ended on metadata that carried a 16-byte digest.
C14_Witness ==
    /\ runs = 2
    /\ MetadataBadDigest
    /\ u.Info.Sha256 = ShortDigest
    /\ pc = "Returned"

(***************************************************************************)
(* The day between two checks.                                             *)
(***************************************************************************)
\* An earlier BackgroundRun of this process performed a check, and
\* ForceCheck is unset on a non-dev version.
CheckedBefore ==
    /\ ~u.ForceCheck
    /\ u.CurrentVersion # "dev"
    /\ lastCheck # ZeroTime

\* A run that contacts an endpoint with a stamped token in place does so
\* only once the token has elapsed.
RetriedOnlyWhenElapsed ==
    (CheckedBefore /\ Called("Fetch") /\ sched.before.kind = "stamp") =>
        sched.before.secs * TicksPerSecond <= clock

\* C15 as stated: after a BackgroundRun that performed a check at time t, a
\* BackgroundRun that starts before t + 24h contacts no endpoint, and a run
\* that does contact one finds the token elapsed.
C15_NoContactWithinDay ==
    /\ (CheckedBefore /\ clock < lastCheck + 24 * Hour) => ~Called("Fetch")
    /\ RetriedOnlyWhenElapsed

\* C15, to the second: after a BackgroundRun that performed a check at time
\* t, a BackgroundRun that starts no later than t + 24h - 1s contacts no
\* endpoint, and a run that does contact one finds the token elapsed.
C15_NoContactWithinDayToTheSecond ==
    /\ (CheckedBefore /\ clock <= lastCheck + 24 * Hour - Second) =>
            /\ ~Called("Fetch")
            /\ want # "true"
    /\ RetriedOnlyWhenElapsed

\* A run that started a second less than a day after a check and was
\* skipped on the token that check wrote.
C15_Witness ==
    /\ CheckedBefore
    /\ clock = lastCheck + 24 * Hour - Second
    /\ sched.outcome = "skipped"
    /\ sched.before.kind = "stamp"
    /\ pc = "Returned"

(***************************************************************************)
(* A declined run.                                                         *)
(***************************************************************************)
\* C16: when wantUpdate returns false, BackgroundRun returns nil and does
\* nothing more: no CanUpdate probe, no open of the executable, no
\* metadata, patch or full-binary fetch, and no install.
C16_DeclinedRunDoesNothing ==
    want = "false" =>
        /\ pc = "Returned"
        /\ ret = Nil
        /\ ~Called("CanUpdate")
        /\ ~Called("Open")
        /\ ~Called("Fetch")
        /\ ~Called("Patch")
        /\ ~Called("Gunzip")
        /\ ~Called("FromStream")
        /\ old = "none"
        /\ bin = "nil"

\* wantUpdate declined on a token in the future and BackgroundRun returned
\* nil.
C16_Witness ==
    /\ want = "false"
    /\ sched.outcome = "skipped"
    /\ sched.before.kind = "stamp"
    /\ pc = "Returned"
    /\ ret = Nil

(***************************************************************************)
(* Where the token lives.                                                  *)
(***************************************************************************)
\* <stateDir>/cktime: the file cktime inside the directory BackgroundRun
\* creates for the configured Dir.
TokenInStateDir == Append(getExecRelativeDir(u.Dir), "cktime")

\* C17: for every configured Dir, with or without a trailing separator, the
\* token wantUpdate reads and writes is the file cktime inside the state
\* directory that BackgroundRun ensured exists.
C17_TokenInsideStateDir ==
    sched.path # <<>> =>
        /\ getExecRelativeDir(u.Dir) \in dirs
        /\ sched.path = TokenInStateDir
        /\ \A i \in DOMAIN calls :
             calls[i].op \in {"ReadFile", "WriteFile"} => calls[i].arg = TokenInStateDir

(***************************************************************************)
(* The order of the strategies within one attempt.                         *)
(***************************************************************************)
\* The positions in calls of the fetches made by a function.
FetchesBy(by) == {i \in DOMAIN calls : calls[i].op = "Fetch" /\ calls[i].by = by}

\* The positions in calls of the install calls.
Installs == {i \in DOMAIN calls : calls[i].op = "FromStream"}

\* Every position of the first set comes before every position of the second.
AllBefore(S, T) == \A i \in S, j \in T : i < j

\* C18: within one attempt there is at most one metadata fetch, then at
\* most one patch fetch, then at most one full-binary fetch, then at most
\* one install call, in that order; the full-binary fetch is made only
\* after the patch path failed, and nothing is fetched after the install
\* call.
C18_StrategiesOnceInOrder ==
    /\ Cardinality(FetchesBy("fetchInfo")) <= 1
    /\ Cardinality(FetchesBy("fetchAndApplyPatch")) <= 1
    /\ Cardinality(FetchesBy("fetchBin")) <= 1
    /\ Cardinality(Installs) <= 1
    /\ NumCalls("Fetch") = Cardinality(FetchesBy("fetchInfo"))
                             + Cardinality(FetchesBy("fetchAndApplyPatch"))
                             + Cardinality(FetchesBy("fetchBin"))
    /\ FetchesBy("fetchAndApplyPatch") # {} => FetchesBy("fetchInfo") # {}
    /\ FetchesBy("fetchBin") # {} =>
         /\ FetchesBy("fetchAndApplyPatch") # {}
         /\ PatchPathFailed
    /\ Installs # {} => FetchesBy("fetchAndApplyPatch") # {}
    /\ AllBefore(FetchesBy("fetchInfo"), FetchesBy("fetchAndApplyPatch"))
    /\ AllBefore(FetchesBy("fetchAndApplyPatch"), FetchesBy("fetchBin"))
    /\ AllBefore(FetchesBy("fetchInfo") \cup FetchesBy("fetchAndApplyPatch")
                   \cup FetchesBy("fetchBin"),
                 Installs)

\* An attempt that went through all four steps: metadata, a failed patch
\* path, the full binary, the install call.
C18_Witness ==
    /\ FetchesBy("fetchInfo") # {}
    /\ FetchesBy("fetchAndApplyPatch") # {}
    /\ FetchesBy("fetchBin") # {}
    /\ Installs # {}
    /\ pc = "Returned"

(***************************************************************************)
(* What an attempt leaves alone.                                           *)
(***************************************************************************)
\* The steps of an attempt between wantUpdate's token write and the install
\* call.
AttemptSteps ==
    {"CanUpdate", "update", "fetchInfo", "fetchAndVerifyPatch", "fetchAndVerifyFullBin"}

\* C19: between the token write and the install call an attempt leaves the
\* persisted state as it is: no step before up.FromStream writes the
\* executable, so an attempt that ends without the install call leaves it
\* unchanged, and the steps after wantUpdate, the fetches among them, never
\* change the token files.
C19_AttemptLeavesDiskAlone ==
    [][ /\ pc # "FromStream" => exe' = exe
        /\ pc \in AttemptSteps \cup {"FromStream"} => files' = files
        /\ pc \in AttemptSteps => dirs' = dirs ]_vars

\* An attempt that wrote the token, fetched the full binary and ended
\* without the install call, the executable being the one it started with.
C19_Witness ==
    /\ pc = "Returned"
    /\ want = "true"
    /\ sched.outcome = "written"
    /\ CalledBy("Fetch", "fetchBin")
    /\ ~Called("FromStream")
    /\ exe = OldBin
    /\ files[sched.path].kind = "stamp"

(***************************************************************************)
(* A token that does not parse.                                            *)
(***************************************************************************)
\* The path wantUpdate reads the token from and writes it to.
TokenPath == getExecRelativeDir(u.Dir \o upcktimePath)

\* C20: while ForceCheck is unset, a token file that exists and does not
\* parse as RFC3339 stays as it is whatever BackgroundRun does, at any
\* clock reading and over any number of runs: no step rewrites it, and no
\* run in which it is there performs a check.
C20_UnparsedTokenAbsorbs ==
    [][ (~u.ForceCheck /\ files[TokenPath] = Garbage) =>
            /\ files' = files
            /\ want' # "true"
            /\ ~Called("WriteFile")'
            /\ ~Called("CanUpdate")'
            /\ ~Called("Fetch")' ]_vars

\* A second run, a day or more after the first, skipped on the token that
\* did not parse when the process started.
C20_Witness ==
    /\ runs = 2
    /\ ~u.ForceCheck
    /\ u.CurrentVersion # "dev"
    /\ sched.before = Garbage
    /\ sched.outcome = "skipped"
    /\ files[TokenPath] = Garbage
    /\ lastCheck = ZeroTime
    /\ pc = "Returned"

(***************************************************************************)
(* When BackgroundRun returns nil.                                         *)
(***************************************************************************)
\* BackgroundRun has returned nil.
ReturnedNil == pc = "Returned" /\ ret = Nil

\* The scheduler declined.
Declined == want = "false"

\* The Version Resolver succeeded and the version it left in Info is the
\* current one.
ResolvedCurrent == Resolved /\ u.Info.Version = u.CurrentVersion

\* The Version Resolver succeeded and the version it left in Info is not
\* the current one.
ResolvedOther == Resolved /\ u.Info.Version # u.CurrentVersion

\* up.FromStream was called with bytes that have the resolved digest and
\* reported neither error.
InstalledVerified ==
    \E i \in DOMAIN calls :
        /\ calls[i].op = "FromStream"
        /\ calls[i].res = "ok"
        /\ Sum256(calls[i].arg) = u.Info.Sha256

\* C21: BackgroundRun returns nil in exactly three situations: wantUpdate
\* declined, the resolved version is the current one, or up.FromStream was
\* called with verified bytes and reported neither error; so a run that
\* returns nil after resolving another version has replaced the executable
\* by the bytes it installed, which have the resolved digest.
C21_NilInThreeSituations ==
    /\ ReturnedNil => (Declined \/ ResolvedCurrent \/ InstalledVerified)
    /\ (pc = "Returned" /\ (Declined \/ ResolvedCurrent \/ InstalledVerified)) =>
            ret = Nil
    /\ (ReturnedNil /\ ResolvedOther) =>
            /\ InstalledVerified
            /\ exe \in Bins
            /\ Sum256(exe) = u.Info.Sha256
            /\ \E i \in DOMAIN calls : calls[i].op = "FromStream" /\ calls[i].arg = exe

\* A run that resolved another version, installed the patched bytes and
\* returned nil.
C21_Witness ==
    /\ ReturnedNil
    /\ ResolvedOther
    /\ InstalledVerified
    /\ ~CalledBy("Fetch", "fetchBin")
    /\ Sum256(exe) = u.Info.Sha256

====
